---- MODULE Spec2Model ----
(***************************************************************************)
(* Model of the Verifiable Intelligence Engine (app.py): the FastAPI       *)
(* handlers train-model, detect-anomalies, model-status and health, the    *)
(* model lifecycle function get_or_train_model, and the worker thread that *)
(* runs _train_model_sync.                                                 *)
(*                                                                         *)
(* Handlers are coroutines on one event loop: between two awaits a handler *)
(* is not interleaved with another handler (variable loop), but it is      *)
(* interleaved with the worker threads started by asyncio.to_thread.       *)
(* The model store is the directory "models": one file per identifier.     *)
(* joblib.dump opens the file for writing (it exists, truncated, from then *)
(* on) and fills it afterwards, so a file is modelled with the states      *)
(* none / partial / full / corrupt.                                        *)
(***************************************************************************)
EXTENDS Integers, Sequences, FiniteSets, TLC

\* ------------------------------------------------------------- bounds
\* Number of requests a behaviour serves (request slots 1..NumReq, taken
\* in order of arrival).
NumReq == 3

Req == 1..NumReq

\* ------------------------------------------------------------- inputs
Ids == {"a", "b"}

Empty  == << >>
D1     == << <<1, 1>>, <<10, 10>> >>
D2     == << <<3>> >>
Ragged == << <<1>>, <<1, 2>> >>

\* contamination in hundredths (0.25 is 25); pydantic's bounds ge=0.0, le=0.5
ContamLow  == 0
ContamHigh == 50

\* The request bodies tried: two well-formed ones that differ in dataset and
\* contamination, an empty dataset, a ragged one, a contamination above 0.5.
Payloads == {
    [data |-> D1,     contamination |-> 25],
    [data |-> D2,     contamination |-> 5],
    [data |-> Empty,  contamination |-> 25],
    [data |-> Ragged, contamination |-> 25],
    [data |-> D1,     contamination |-> 60] }

\* ------------------------------------------------------------- values
Free == 0

NoForest == [data |-> Empty, contamination |-> -1]

\* IsolationForest(contamination=c, random_state=42).fit(data): the seed is
\* fixed, so the fitted forest is a function of the data and contamination.
FitForest(data, c) == [data |-> data, contamination |-> c]

NoFile   == [st |-> "none",    f |-> NoForest]
Partial  == [st |-> "partial", f |-> NoForest]
Corrupt  == [st |-> "corrupt", f |-> NoForest]
FullFile(f) == [st |-> "full", f |-> f]

NoReq == [kind |-> "none", id |-> "a", data |-> Empty, contamination |-> 0]
NoResult == [code |-> 0, body |-> "none"]
NoScore == <<-1, -1>>

InFlight == {"fit", "writing"}

VARIABLES
    pc,        \* position of each request's handler
    req,       \* the request's payload
    loop,      \* the request whose handler runs on the event loop, or Free
    store,     \* models/<id>.joblib, per identifier
    mix,       \* what writers that overlapped on the file have put in it
    wk,        \* state of the worker thread started for the request
    model,     \* the forest get_or_train_model returned to the request
    result,    \* the HTTP response
    seen,      \* history: outcome of the request's os.path.exists
    after,     \* history: the status request arrived after a successful
               \* train/detect response for its identifier
    batch,     \* verifiability scorer: the raw scores of a batch
    evs        \* verifiability scorer: the score of the batch, a fraction

vars == <<pc, req, loop, store, mix, wk, model, result, seen, after, batch, evs>>

\* ------------------------------------------------------------- helpers
\* _get_model_path / os.path.exists
Exists(id) == store[id].st /= "none"

\* pydantic Field(ge=0.0, le=0.5)
ValidContamination(c) == c >= ContamLow /\ c <= ContamHigh

\* Faulty variant of IsEmpty: the handlers without their `if not data` test.
IsEmptyNever(data) == FALSE

\* `if not data`
IsEmpty(data) == Len(data) = 0

Rectangular(data) == \A i, j \in 1..Len(data) : Len(data[i]) = Len(data[j])

\* np.array(data).ndim for a list of lists of floats; a ragged list gives a
\* 1-D object array (or makes np.array raise, see Rejections).
Ndim(data) == IF Len(data) = 0 \/ ~Rectangular(data) THEN 1 ELSE 2

\* Faulty variant of Loadable: a load that accepts whatever the file holds.
LoadableAny(id) == TRUE

\* joblib.load: the forest of a completely written file, an exception otherwise
Loadable(id) == store[id].st = "full"

Writers(id) == {r \in Req : wk[r] = "writing" /\ req[r].id = id}

\* training runs started / joblib.dump calls completed for an identifier
\* (a request starts at most one worker, and slots are not reused)
Builds(id) == Cardinality({r \in Req : wk[r] /= "none" /\ req[r].id = id})
Saves(id)  == Cardinality({r \in Req : wk[r] = "saved" /\ req[r].id = id})

Succeeded(r) ==
    /\ pc[r] = "done"
    /\ req[r].kind \in {"train", "detect"}
    /\ result[r].code \in {200, 201}

TypeOK ==
    /\ pc \in [Req -> {"idle", "lookup", "load", "await", "s_exists", "s_load", "done"}]
    /\ loop \in Req \cup {Free}
    /\ wk \in [Req -> {"none", "fit", "writing", "saved", "failed"}]
    /\ seen \in [Req -> {"none", "absent", "present"}]
    /\ \A id \in Ids : store[id].st \in {"none", "partial", "full", "corrupt"}

\* The handlers and the store before the first request.
InitServer ==
    /\ pc = [r \in Req |-> "idle"]
    /\ req = [r \in Req |-> NoReq]
    /\ loop = Free
    /\ store = [id \in Ids |-> NoFile]
    /\ mix = [id \in Ids |-> {}]
    /\ wk = [r \in Req |-> "none"]
    /\ model = [r \in Req |-> NoForest]
    /\ result = [r \in Req |-> NoResult]
    /\ seen = [r \in Req |-> "none"]
    /\ after = [r \in Req |-> FALSE]

Init ==
    /\ InitServer
    /\ batch = << >>
    /\ evs = NoScore

\* ------------------------------------------------------------- dispatch
\* The serving layer hands requests to the handlers one at a time; slots are
\* taken in order of arrival.
NextSlot(r) ==
    /\ pc[r] = "idle"
    /\ \A q \in Req : q < r => pc[q] /= "idle"
    /\ loop = Free

ArrivedAfter(id) == \E q \in Req : Succeeded(q) /\ req[q].id = id

\* What the request layer answers without calling get_or_train_model:
\* pydantic's 422, then `if not data` (400), then the ndim test (400); on a
\* ragged list np.array either gives a 1-D object array or raises outside
\* the try block (500), depending on the numpy build.
Rejections(data, c) ==
    IF ~ValidContamination(c) THEN {[code |-> 422, body |-> "contamination"]}
    ELSE IF IsEmpty(data) THEN {[code |-> 400, body |-> "empty"]}
    ELSE IF Ndim(data) /= 2
         THEN IF Rectangular(data)
              THEN {[code |-> 400, body |-> "not2d"]}
              ELSE {[code |-> 400, body |-> "not2d"], [code |-> 500, body |-> "unhandled"]}
    ELSE {}

\* train_model_endpoint / detect_anomalies_endpoint up to the call of
\* get_or_train_model.
Arrive(r, kind, id, data, c) ==
    /\ NextSlot(r)
    /\ req' = [req EXCEPT ![r] = [kind |-> kind, id |-> id, data |-> data, contamination |-> c]]
    /\ IF Rejections(data, c) = {}
       THEN /\ pc' = [pc EXCEPT ![r] = "lookup"]
            /\ loop' = r
            /\ UNCHANGED result
       ELSE /\ \E rej \in Rejections(data, c) : result' = [result EXCEPT ![r] = rej]
            /\ pc' = [pc EXCEPT ![r] = "done"]
            /\ UNCHANGED loop
    /\ UNCHANGED <<store, mix, wk, model, seen, after, batch, evs>>

\* Faulty variant of LoopAfterSubmit: _train_model_sync called inline, the
\* handler keeps the event loop.
LoopAfterSubmitInline(r) == r

\* asyncio.to_thread: the handler gives up the event loop while it awaits.
LoopAfterSubmit(r) == Free

\* Faulty variant of Lookup: a detect request for an identifier without a
\* file is answered "not found" instead of training.
LookupNotFound(r) ==
    /\ pc[r] = "lookup"
    /\ loop = r
    /\ IF Exists(req[r].id)
       THEN /\ seen' = [seen EXCEPT ![r] = "present"]
            /\ pc' = [pc EXCEPT ![r] = "load"]
            /\ UNCHANGED <<loop, wk, result>>
       ELSE IF req[r].kind = "detect"
            THEN /\ seen' = [seen EXCEPT ![r] = "absent"]
                 /\ pc' = [pc EXCEPT ![r] = "done"]
                 /\ result' = [result EXCEPT ![r] = [code |-> 404, body |-> "not found"]]
                 /\ loop' = Free
                 /\ UNCHANGED wk
            ELSE /\ seen' = [seen EXCEPT ![r] = "absent"]
                 /\ pc' = [pc EXCEPT ![r] = "await"]
                 /\ wk' = [wk EXCEPT ![r] = "fit"]
                 /\ loop' = LoopAfterSubmit(r)
                 /\ UNCHANGED result
    /\ UNCHANGED <<req, store, mix, model, after, batch, evs>>

\* get_or_train_model: os.path.exists, and the else branch (to_thread).
Lookup(r) ==
    /\ pc[r] = "lookup"
    /\ loop = r
    /\ IF Exists(req[r].id)
       THEN /\ seen' = [seen EXCEPT ![r] = "present"]
            /\ pc' = [pc EXCEPT ![r] = "load"]
            /\ UNCHANGED <<loop, wk>>
       ELSE /\ seen' = [seen EXCEPT ![r] = "absent"]
            /\ pc' = [pc EXCEPT ![r] = "await"]
            /\ wk' = [wk EXCEPT ![r] = "fit"]
            /\ loop' = LoopAfterSubmit(r)
    /\ UNCHANGED <<req, store, mix, model, result, after, batch, evs>>

Width(data) == IF Len(data) = 0 THEN 0 ELSE Len(data[1])

\* model.predict / decision_function: the samples must have the forest's
\* number of features.
PredictOK(f, data) == Width(f.data) = Width(data)

\* The response once get_or_train_model has returned forest f.
Response(r, f) ==
    IF req[r].kind = "train" THEN [code |-> 201, body |-> "Success"]
    ELSE IF req[r].kind = "detect"
         THEN IF PredictOK(f, req[r].data) THEN [code |-> 200, body |-> "labels"]
              ELSE [code |-> 500, body |-> "detection failed"]
    ELSE [code |-> 0, body |-> "returned"]

\* The response when get_or_train_model raised.
Failure(r) ==
    IF req[r].kind = "train" THEN [code |-> 500, body |-> "Failed to train model"]
    ELSE IF req[r].kind = "detect" THEN [code |-> 500, body |-> "detection failed"]
    ELSE [code |-> 0, body |-> "raised"]

\* Faulty variant of LoadedForest: refresh on mismatch, the forest of the
\* call's own arguments.
LoadedForestRefit(r) == FitForest(req[r].data, req[r].contamination)

\* joblib.load(model_path) in get_or_train_model
LoadedForest(r) == store[req[r].id].f

\* get_or_train_model, the branch of an existing file, and the rest of the
\* handler.
Load(r) ==
    /\ pc[r] = "load"
    /\ loop = r
    /\ IF Loadable(req[r].id)
       THEN /\ model' = [model EXCEPT ![r] = LoadedForest(r)]
            /\ result' = [result EXCEPT ![r] = Response(r, LoadedForest(r))]
       ELSE /\ result' = [result EXCEPT ![r] = Failure(r)]
            /\ UNCHANGED model
    /\ pc' = [pc EXCEPT ![r] = "done"]
    /\ loop' = Free
    /\ UNCHANGED <<req, store, mix, wk, seen, after, batch, evs>>

\* ------------------------------------------------------------- worker
\* What IsolationForest.fit accepts: a 2-D array and a contamination in
\* (0, 0.5].
FitAccepts(data, c) == Ndim(data) = 2 /\ c > ContamLow /\ c <= ContamHigh

\* Faulty variant of FitFail: the file is opened before the forest is fitted,
\* so a fit that raises leaves an empty file behind.
FitFailAfterOpen(r) ==
    /\ wk[r] = "fit"
    /\ wk' = [wk EXCEPT ![r] = "failed"]
    /\ store' = [store EXCEPT ![req[r].id] = IF @.st = "none" THEN Partial ELSE @]
    /\ UNCHANGED <<pc, req, loop, mix, model, result, seen, after, batch, evs>>

\* Faulty variant of FitFail: a timeout that cancels the build, which then
\* neither completes nor fails.
FitCancelled(r) ==
    /\ wk[r] = "fit"
    /\ wk' = [wk EXCEPT ![r] = "cancelled"]
    /\ UNCHANGED <<pc, req, loop, store, mix, model, result, seen, after, batch, evs>>

\* _train_model_sync: model.fit(data) raises (always on an input it does not
\* accept; on any input it may, e.g. for lack of memory).
FitFail(r) ==
    /\ wk[r] = "fit"
    /\ wk' = [wk EXCEPT ![r] = "failed"]
    /\ UNCHANGED <<pc, req, loop, store, mix, model, result, seen, after, batch, evs>>

\* _train_model_sync: model.fit(data) returns (a computation local to the
\* thread) and joblib.dump opens the file "wb": it exists and is empty from
\* now on.
DumpOpen(r) ==
    /\ wk[r] = "fit"
    /\ FitAccepts(req[r].data, req[r].contamination)
    /\ wk' = [wk EXCEPT ![r] = "writing"]
    /\ store' = [store EXCEPT ![req[r].id] = Partial]
    /\ mix' = [mix EXCEPT ![req[r].id] = IF Writers(req[r].id) = {} THEN {} ELSE @]
    /\ UNCHANGED <<pc, req, loop, model, result, seen, after, batch, evs>>

\* What the file holds once the last of several overlapping writers is done:
\* the bytes of one of them, or a mixture no load accepts.
Outcomes(m) == m \cup (IF Cardinality(m) > 1 THEN {Corrupt} ELSE {})

\* joblib.dump returns.
DumpDone(r) ==
    LET id == req[r].id
        m  == mix[id] \cup {FullFile(FitForest(req[r].data, req[r].contamination))}
    IN  /\ wk[r] = "writing"
        /\ wk' = [wk EXCEPT ![r] = "saved"]
        /\ mix' = [mix EXCEPT ![id] = m]
        /\ IF Writers(id) = {r}
           THEN \E o \in Outcomes(m) : store' = [store EXCEPT ![id] = o]
           ELSE UNCHANGED store
        /\ UNCHANGED <<pc, req, loop, model, result, seen, after, batch, evs>>

\* joblib.dump raises while writing: what was written stays in the file.
DumpFail(r) ==
    LET id == req[r].id
        m  == mix[id] \cup {Corrupt}
    IN  /\ wk[r] = "writing"
        /\ wk' = [wk EXCEPT ![r] = "failed"]
        /\ mix' = [mix EXCEPT ![id] = m]
        /\ IF Writers(id) = {r}
           THEN \E o \in m : store' = [store EXCEPT ![id] = o]
           ELSE UNCHANGED store
        /\ UNCHANGED <<pc, req, loop, model, result, seen, after, batch, evs>>

\* Faulty variant of BuildReturned: the model handed back before it is saved.
BuildReturnedEarly(r) == wk[r] \in InFlight \cup {"saved"}

\* _train_model_sync has returned its model: after joblib.dump.
BuildReturned(r) == wk[r] = "saved"

\* The worker's future is done.
Joined(r) == BuildReturned(r) \/ wk[r] = "failed"

\* Faulty variant of Resume: a failed build is submitted again.
ResumeRetries(r) ==
    /\ pc[r] = "await"
    /\ loop = Free
    /\ Joined(r)
    /\ IF BuildReturned(r)
       THEN /\ model' = [model EXCEPT ![r] = FitForest(req[r].data, req[r].contamination)]
            /\ result' = [result EXCEPT ![r] =
                            Response(r, FitForest(req[r].data, req[r].contamination))]
            /\ pc' = [pc EXCEPT ![r] = "done"]
            /\ UNCHANGED wk
       ELSE /\ wk' = [wk EXCEPT ![r] = "fit"]
            /\ UNCHANGED <<model, result, pc>>
    /\ UNCHANGED <<req, loop, store, mix, seen, after, batch, evs>>

\* `await asyncio.to_thread(...)` returns or raises; the handler finishes.
Resume(r) ==
    /\ pc[r] = "await"
    /\ loop = Free
    /\ Joined(r)
    /\ IF BuildReturned(r)
       THEN /\ model' = [model EXCEPT ![r] = FitForest(req[r].data, req[r].contamination)]
            /\ result' = [result EXCEPT ![r] =
                            Response(r, FitForest(req[r].data, req[r].contamination))]
       ELSE /\ result' = [result EXCEPT ![r] = Failure(r)]
            /\ UNCHANGED model
    /\ pc' = [pc EXCEPT ![r] = "done"]
    /\ UNCHANGED <<req, loop, store, mix, wk, seen, after, batch, evs>>

\* ------------------------------------------------------------- status, health
ArriveStatus(r, id) ==
    /\ NextSlot(r)
    /\ req' = [req EXCEPT ![r] = [kind |-> "status", id |-> id, data |-> Empty, contamination |-> 0]]
    /\ after' = [after EXCEPT ![r] = ArrivedAfter(id)]
    /\ pc' = [pc EXCEPT ![r] = "s_exists"]
    /\ loop' = r
    /\ UNCHANGED <<store, mix, wk, model, result, seen, batch, evs>>

\* Faulty variant of StatusExists: a status query that trains when it finds
\* no file.
StatusExistsTrains(r) ==
    /\ pc[r] = "s_exists"
    /\ loop = r
    /\ IF Exists(req[r].id)
       THEN /\ seen' = [seen EXCEPT ![r] = "present"]
            /\ pc' = [pc EXCEPT ![r] = "s_load"]
            /\ UNCHANGED <<loop, result, wk>>
       ELSE /\ seen' = [seen EXCEPT ![r] = "absent"]
            /\ pc' = [pc EXCEPT ![r] = "done"]
            /\ result' = [result EXCEPT ![r] = [code |-> 200, body |-> "untrained"]]
            /\ wk' = [wk EXCEPT ![r] = "fit"]
            /\ loop' = Free
    /\ UNCHANGED <<req, store, mix, model, after, batch, evs>>

\* get_model_status_endpoint: os.path.exists
StatusExists(r) ==
    /\ pc[r] = "s_exists"
    /\ loop = r
    /\ IF Exists(req[r].id)
       THEN /\ seen' = [seen EXCEPT ![r] = "present"]
            /\ pc' = [pc EXCEPT ![r] = "s_load"]
            /\ UNCHANGED <<loop, result>>
       ELSE /\ seen' = [seen EXCEPT ![r] = "absent"]
            /\ pc' = [pc EXCEPT ![r] = "done"]
            /\ result' = [result EXCEPT ![r] = [code |-> 200, body |-> "untrained"]]
            /\ loop' = Free
    /\ UNCHANGED <<req, store, mix, wk, model, after, batch, evs>>

\* get_model_status_endpoint: joblib.load in try/except
StatusLoad(r) ==
    /\ pc[r] = "s_load"
    /\ loop = r
    /\ result' = [result EXCEPT ![r] =
                    IF Loadable(req[r].id) THEN [code |-> 200, body |-> "trained"]
                    ELSE [code |-> 200, body |-> "untrained"]]
    /\ pc' = [pc EXCEPT ![r] = "done"]
    /\ loop' = Free
    /\ UNCHANGED <<req, store, mix, wk, model, seen, after, batch, evs>>

\* health_check
Health(r) ==
    /\ NextSlot(r)
    /\ req' = [req EXCEPT ![r] = [kind |-> "health", id |-> "a", data |-> Empty, contamination |-> 0]]
    /\ pc' = [pc EXCEPT ![r] = "done"]
    /\ result' = [result EXCEPT ![r] = [code |-> 200, body |-> "operational"]]
    /\ UNCHANGED <<loop, store, mix, wk, model, seen, after, batch, evs>>

\* ------------------------------------------------------------- direct calls
\* get_or_train_model called by a caller other than the two endpoints: no
\* request layer has looked at the arguments.
CoreCall(r, id, data, c) ==
    /\ NextSlot(r)
    /\ req' = [req EXCEPT ![r] = [kind |-> "core", id |-> id, data |-> data, contamination |-> c]]
    /\ pc' = [pc EXCEPT ![r] = "lookup"]
    /\ loop' = r
    /\ UNCHANGED <<store, mix, wk, model, result, seen, after, batch, evs>>

\* ------------------------------------------------------------- specification
Next ==
    \/ \E r \in Req, kind \in {"train", "detect"}, id \in Ids, p \in Payloads :
          Arrive(r, kind, id, p.data, p.contamination)
    \/ \E r \in Req, id \in Ids : ArriveStatus(r, id)
    \/ \E r \in Req : Health(r)
    \/ \E r \in Req : Lookup(r)
    \/ \E r \in Req : Load(r)
    \/ \E r \in Req : FitFail(r)
    \/ \E r \in Req : DumpOpen(r)
    \/ \E r \in Req : DumpDone(r)
    \/ \E r \in Req : DumpFail(r)
    \/ \E r \in Req : Resume(r)
    \/ \E r \in Req : StatusExists(r)
    \/ \E r \in Req : StatusLoad(r)

Spec == Init /\ [][Next]_vars

\* The lifecycle manager alone, under direct calls of get_or_train_model.
NextCore ==
    \/ \E r \in Req, id \in Ids, p \in Payloads : CoreCall(r, id, p.data, p.contamination)
    \/ \E r \in Req : Lookup(r)
    \/ \E r \in Req : Load(r)
    \/ \E r \in Req : FitFail(r)
    \/ \E r \in Req : DumpOpen(r)
    \/ \E r \in Req : DumpDone(r)
    \/ \E r \in Req : DumpFail(r)
    \/ \E r \in Req : Resume(r)

SpecCore == Init /\ [][NextCore]_vars

\* ------------------------------------------------------------- properties
Building(id) == {r \in Req : req[r].id = id /\ wk[r] \in InFlight}

\* C1: concurrent first-time callers of one identifier serialize into one
\* training run and one write: no two builds of an identifier are in flight
\* together, and at most one save of it completes.
C1_OneTrainingRun ==
    \A id \in Ids : Cardinality(Building(id)) <= 1 /\ Saves(id) <= 1

\* C2: a record is written only by a caller whose lookup found no file, and
\* a completely stored record is never replaced or deleted afterwards.
C2_CreatedOnceNeverReplaced ==
    [][\A id \in Ids :
          /\ store'[id] /= store[id] =>
                \E r \in Req : /\ req[r].id = id
                               /\ seen[r] = "absent"
                               /\ wk[r] \in InFlight
                               /\ wk'[r] /= wk[r]
          /\ store[id].st = "full" => store'[id] = store[id]]_vars

\* C3: cache idempotence: any two get_or_train_model calls of one identifier
\* that returned a forest returned the same forest, whatever their datasets
\* and contamination values.
C3_SameForest ==
    \A r1, r2 \in Req :
        (/\ req[r1].id = req[r2].id
         /\ model[r1] /= NoForest
         /\ model[r2] /= NoForest) => model[r1] = model[r2]

\* C4: a call whose lookup found the file starts no worker and writes
\* nothing; its step from the lookup to its answer leaves the store as it
\* is, and the forest it returns is the stored one, not one of its own
\* dataset and contamination.
C4_CacheWins ==
    [][\A r \in Req :
          /\ seen'[r] = "present" => wk'[r] = "none"
          /\ (pc[r] = "load" /\ pc'[r] = "done") =>
                /\ store' = store
                /\ mix' = mix
                /\ wk' = wk
                /\ model'[r] = store[req[r].id].f]_vars

C4_Witness ==
    \E r \in Req :
        /\ pc[r] = "done"
        /\ req[r].kind \in {"train", "detect"}
        /\ seen[r] = "present"
        /\ model[r] /= NoForest
        /\ model[r] /= [data |-> req[r].data, contamination |-> req[r].contamination]
        /\ store[req[r].id] = FullFile(model[r])

\* C5: a train or detect request with an empty dataset is answered at once
\* with 400 "cannot be empty" (422 if its contamination is out of range too):
\* no lookup, no worker, no forest, and the store and the workers are as
\* they were before the request.
C5_EmptyRejected ==
    [][\A r \in Req :
          (req'[r].kind \in {"train", "detect"} /\ Len(req'[r].data) = 0) =>
              /\ pc'[r] = "done"
              /\ seen'[r] = "none"
              /\ wk'[r] = "none"
              /\ model'[r] = NoForest
              /\ result'[r].code \in {400, 422}
              /\ result'[r].code = 400 => result'[r].body = "empty"
              /\ pc[r] = "idle" => (store' = store /\ mix' = mix /\ wk' = wk)]_vars

C5_Witness ==
    \E r \in Req :
        /\ req[r].kind = "detect"
        /\ Len(req[r].data) = 0
        /\ pc[r] = "done"
        /\ result[r] = [code |-> 400, body |-> "empty"]
        /\ \E q \in Req : q < r /\ Exists(req[q].id)

OutOfContract(data, c) ==
    \/ Len(data) = 0
    \/ \E i, j \in 1..Len(data) : Len(data[i]) /= Len(data[j])
    \/ c < ContamLow
    \/ c > ContamHigh

\* C6: get_or_train_model itself rejects a call with an empty or ragged
\* dataset or a contamination outside [0, 0.5] before any lookup: such a call
\* never looks the file up, starts no worker and gets no forest.
C6_CoreRejects ==
    \A r \in Req :
        (req[r].kind = "core" /\ OutOfContract(req[r].data, req[r].contamination)) =>
            /\ seen[r] = "none"
            /\ wk[r] = "none"
            /\ model[r] = NoForest

\* C7: no step of a status query changes the store or starts or moves a
\* worker, whether the identifier has a file or not.
C7_StatusReadOnly ==
    [][\A r \in Req :
          (req'[r].kind = "status" /\ pc'[r] /= pc[r]) =>
              /\ store' = store
              /\ mix' = mix
              /\ wk' = wk
              /\ model' = model]_vars

C7_Witness ==
    /\ \E r \in Req : /\ req[r].kind = "status"
                      /\ pc[r] = "done"
                      /\ seen[r] = "absent"
                      /\ ~Exists(req[r].id)
    /\ \E r \in Req : /\ req[r].kind = "status"
                      /\ pc[r] = "done"
                      /\ result[r].body = "trained"
                      /\ store[req[r].id].st = "full"

\* C8: a status query answers 200, with is_trained true if it came after a
\* successful train or detect of the identifier, false if nothing was ever
\* trained for it, and true only for an identifier that has a file.
C8_StatusReportsRecord ==
    \A r \in Req :
        (req[r].kind = "status" /\ pc[r] = "done") =>
            /\ result[r].code = 200
            /\ after[r] => result[r].body = "trained"
            /\ Builds(req[r].id) = 0 => result[r].body = "untrained"
            /\ result[r].body = "trained" => Exists(req[r].id)

\* C9: whenever get_or_train_model has returned a forest, the identifier has
\* a file; a call that found none has by then fitted the forest of its own
\* dataset and contamination and its joblib.dump has returned.
C9_SavedBeforeReturned ==
    \A r \in Req :
        model[r] /= NoForest =>
            /\ Exists(req[r].id)
            /\ seen[r] = "absent" =>
                  /\ wk[r] = "saved"
                  /\ model[r] = [data |-> req[r].data, contamination |-> req[r].contamination]

C9_Witness ==
    \E r \in Req :
        /\ pc[r] = "done"
        /\ seen[r] = "absent"
        /\ model[r] = [data |-> req[r].data, contamination |-> req[r].contamination]
        /\ store[req[r].id] = FullFile(model[r])
        /\ result[r].code = 201

\* C10: a build never holds the event loop: while the worker of a request is
\* in flight the request's handler is suspended at its await, the loop is
\* not its own, and it has no answer yet.
C10_BuildOffLoop ==
    \A b \in Req :
        wk[b] \in InFlight =>
            /\ loop /= b
            /\ pc[b] = "await"
            /\ result[b] = NoResult
            /\ model[b] = NoForest

\* ... and requests that arrived after the build began complete before it
\* ends: a detect on another identifier that has a record, a status query
\* and a health check.
C10_Witness ==
    \E b \in Req :
        /\ wk[b] \in InFlight
        /\ \E r \in Req :
              /\ b < r
              /\ pc[r] = "done"
              /\ req[r].kind = "detect"
              /\ req[r].id /= req[b].id
              /\ seen[r] = "present"
              /\ result[r].code = 200

\* ------------------------------------------------------------- verifiability score
\* detect_anomalies_endpoint, from model.decision_function to the score.
\* The raw scores are reals; the model takes them from a small range of
\* integers and keeps the score exact, as the fraction <<numerator,
\* denominator>> (<<0, 0>> is 0/0, numpy's nan).
MaxBatch == 3
MaxScore == 2

ScoreVals == (0 - MaxScore)..MaxScore

Batches == UNION {[1..n -> ScoreVals] : n \in 1..MaxBatch}

\* anomaly_scores.min() / anomaly_scores.max()
MinOf(b) == CHOOSE x \in {b[i] : i \in 1..Len(b)} : \A j \in 1..Len(b) : x <= b[j]
MaxOf(b) == CHOOSE x \in {b[i] : i \in 1..Len(b)} : \A j \in 1..Len(b) : x >= b[j]

\* Faulty variant of Degenerate: no test for max_score == min_score.
DegenerateNever(b) == FALSE

\* `if max_score == min_score`
Degenerate(b) == MaxOf(b) = MinOf(b)

RECURSIVE SumShifted(_, _, _)
\* the sum over the batch of (score - min_score), from index i on
SumShifted(b, lo, i) == IF i > Len(b) THEN 0 ELSE (b[i] - lo) + SumShifted(b, lo, i + 1)

\* Faulty variant of MeanDenominator: np.sum in place of np.mean.
SumDenominator(b) == MaxOf(b) - MinOf(b)

\* np.mean((anomaly_scores - min_score) / (max_score - min_score)) is the sum
\* of the shifted scores over len * (max_score - min_score).
MeanDenominator(b) == Len(b) * (MaxOf(b) - MinOf(b))

Score(b) ==
    IF Degenerate(b) THEN <<1, 1>>
    ELSE <<SumShifted(b, MinOf(b), 1), MeanDenominator(b)>>

\* The scoring step of a detect request.
ScoreBatch ==
    /\ batch /= << >>
    /\ evs = NoScore
    /\ evs' = Score(batch)
    /\ UNCHANGED <<pc, req, loop, store, mix, wk, model, result, seen, after, batch>>

InitScore ==
    /\ InitServer
    /\ batch \in Batches
    /\ evs = NoScore

NextScore == ScoreBatch

SpecScore == InitScore /\ [][NextScore]_vars

\* C11: the score is exactly 1.0 whenever all raw scores of the batch are
\* equal, single-sample batches included.
C11_DegenerateScoreIsOne ==
    (evs /= NoScore /\ \A i, j \in 1..Len(batch) : batch[i] = batch[j]) => evs = <<1, 1>>

C11_Witness ==
    /\ Len(batch) = 1
    /\ evs = <<1, 1>>

\* C12: for a batch whose raw scores are not all equal the score is a
\* fraction with a positive denominator that lies in [0, 1].
C12_ScoreInUnitInterval ==
    (evs /= NoScore /\ \E i, j \in 1..Len(batch) : batch[i] /= batch[j]) =>
        /\ evs[2] > 0
        /\ 0 <= evs[1]
        /\ evs[1] <= evs[2]

C12_Witness ==
    /\ Len(batch) = MaxBatch
    /\ \E i, j \in 1..Len(batch) : batch[i] /= batch[j]
    /\ evs /= NoScore
    /\ 0 < evs[1]
    /\ evs[1] < evs[2]

\* ------------------------------------------------------------- failures, progress
\* A worker thread runs on its own: once started, model.fit returns or
\* raises, and joblib.dump returns or raises.
WorkerFair ==
    \A r \in Req : /\ WF_vars(FitFail(r) \/ DumpOpen(r))
                   /\ WF_vars(DumpDone(r) \/ DumpFail(r))

SpecCoreFair == SpecCore /\ WorkerFair

\* C13: a failed fit or dump is answered with an error and nothing is tried
\* again: a worker only moves forward (fit, then writing, then saved or
\* failed), so a call starts at most one training run and one write, and
\* the caller of a failed worker gets 500 and no forest.
C13_FailureSurfacedNoRetry ==
    [][\A r \in Req :
          /\ wk[r] = "failed" => wk'[r] = "failed"
          /\ wk[r] = "saved" => wk'[r] = "saved"
          /\ wk[r] = "writing" => wk'[r] \in {"writing", "saved", "failed"}
          /\ wk[r] = "fit" => wk'[r] \in {"fit", "writing", "failed"}
          /\ (wk[r] = "failed" /\ pc[r] = "await" /\ pc'[r] /= "await") =>
                /\ pc'[r] = "done"
                /\ result'[r].code = 500
                /\ model'[r] = NoForest]_vars

C13_Witness ==
    /\ \E r \in Req : /\ pc[r] = "done"
                      /\ wk[r] = "failed"
                      /\ result[r].code = 500
                      /\ store[req[r].id].st = "corrupt"
    /\ \E r \in Req : /\ pc[r] = "done"
                      /\ wk[r] = "failed"
                      /\ result[r].code = 500
                      /\ store[req[r].id].st = "none"

\* C14: every build that is in flight eventually completes (saved) or fails;
\* nothing cancels it or times it out.
C14_BuildsEnd ==
    \A r \in Req : (wk[r] \in InFlight) ~> (wk[r] \in {"saved", "failed"})

C14_Witness ==
    \E r \in Req :
        /\ wk[r] = "saved"
        /\ pc[r] = "await"
        /\ store[req[r].id].st = "full"

\* ------------------------------------------------------------- train, detect
\* C16 as stated: a train request answered Success has itself trained a
\* forest from its dataset and contamination and saved it.
C16_TrainedDuringRequest ==
    \A r \in Req :
        (pc[r] = "done" /\ req[r].kind = "train" /\ result[r].body = "Success") =>
            /\ wk[r] = "saved"
            /\ model[r] = [data |-> req[r].data, contamination |-> req[r].contamination]

\* C16: a train request answered Success has either found a record and
\* loaded its forest, training nothing, or has trained a forest from its
\* dataset and contamination and its save has returned.
C16_LoadedOrTrained ==
    \A r \in Req :
        (pc[r] = "done" /\ req[r].kind = "train" /\ result[r].body = "Success") =>
            \/ /\ seen[r] = "present"
               /\ wk[r] = "none"
               /\ model[r] /= NoForest
            \/ /\ seen[r] = "absent"
               /\ wk[r] = "saved"
               /\ model[r] = [data |-> req[r].data, contamination |-> req[r].contamination]

C16_Witness ==
    /\ \E r \in Req : /\ pc[r] = "done"
                      /\ req[r].kind = "train"
                      /\ result[r].body = "Success"
                      /\ seen[r] = "present"
                      /\ model[r].data /= req[r].data
    /\ \E r \in Req : /\ pc[r] = "done"
                      /\ req[r].kind = "train"
                      /\ result[r].body = "Success"
                      /\ seen[r] = "absent"

\* A finished detect request whose lookup found no file.
DetectAbsent(r) == pc[r] = "done" /\ req[r].kind = "detect" /\ seen[r] = "absent"

\* C17: a detect request whose lookup finds no file is never answered "not
\* found": it is answered with labels of the forest fitted from its own
\* samples and contamination once its own save has returned (or with 500
\* when its own fit or save raised); from its answer on the file exists, and
\* a train request for the identifier that has not looked up yet finds the
\* file, gets no worker and so writes nothing.
C17_DetectTrainsInstead ==
    [][\A r \in Req : DetectAbsent(r) =>
          /\ result[r].code \in {200, 500}
          /\ result[r].code = 500 => wk[r] = "failed"
          /\ result[r].code = 200 =>
                /\ wk[r] = "saved"
                /\ model[r] = [data |-> req[r].data, contamination |-> req[r].contamination]
                /\ store[req[r].id].st /= "none"
                /\ store'[req[r].id].st /= "none"
                /\ \A q \in Req :
                      (req'[q].kind = "train" /\ req'[q].id = req[r].id
                          /\ seen[q] /= "absent") =>
                         /\ seen'[q] /= "absent"
                         /\ wk[q] = "none"
                         /\ wk'[q] = "none"]_vars

C17_Witness ==
    \E r, q \in Req :
        /\ DetectAbsent(r)
        /\ result[r].body = "labels"
        /\ model[r].data = req[r].data
        /\ q > r
        /\ pc[q] = "done"
        /\ req[q].kind = "train"
        /\ req[q].id = req[r].id
        /\ req[q].data /= req[r].data
        /\ seen[q] = "present"
        /\ result[q].body = "Success"
        /\ model[q] = model[r]
        /\ store[req[r].id] = [st |-> "full", f |-> model[r]]

\* ------------------------------------------------------------- the store
\* C18: a caller that has found the file of an identifier (get_or_train_model
\* or the status query, about to load) finds a completely written forest in
\* it, and the file of an identifier exists only once a save for that
\* identifier has returned.
C18_NeverHalfWritten ==
    /\ \A r \in Req : pc[r] \in {"load", "s_load"} => store[req[r].id].st = "full"
    /\ \A id \in Ids : store[id].st /= "none" => \E r \in Req : wk[r] = "saved" /\ req[r].id = id

\* C19: a fit that raises writes nothing, so the call creates no file; while
\* the identifier still has none, the next call that looks it up finds it
\* absent and starts a training run of its own.
C19_FailedFitLeavesNoRecord ==
    [][\A r \in Req :
          /\ (wk[r] = "fit" /\ wk'[r] = "failed") => store' = store
          /\ \A q \in Req :
                (/\ wk[r] = "failed"
                 /\ store[req[r].id].st = "none"
                 /\ req[q].id = req[r].id
                 /\ pc[q] = "lookup"
                 /\ pc'[q] /= "lookup") =>
                    /\ seen'[q] = "absent"
                    /\ pc'[q] = "await"
                    /\ wk'[q] = "fit"]_vars

C19_Witness ==
    \E r, q \in Req :
        /\ q > r
        /\ req[q].id = req[r].id
        /\ pc[r] = "done"
        /\ wk[r] = "failed"
        /\ result[r].code = 500
        /\ \A p \in Req : (p /= q /\ req[p].id = req[r].id) => wk[p] \in {"none", "failed"}
        /\ seen[q] = "absent"
        /\ wk[q] = "saved"
        /\ pc[q] = "done"
        /\ store[req[q].id] = [st |-> "full", f |-> model[q]]

====
